---- MODULE Spec2Model ----
(***************************************************************************)
(* Gibbs sampler motif search (gibbs_sampler.py).                          *)
(*                                                                         *)
(* Strings are sequences of one-character strings; Python's 0-based        *)
(* indices are kept as program values and shifted by one on access.  The   *)
(* profile's floats are exact fractions [num, den].  The two ANSI escape   *)
(* sequences of the rendering are one token each.                          *)
(***************************************************************************)
EXTENDS Integers, Sequences, FiniteSets, TLC

VARIABLES
    \* gibbs_sampler: parameters, locals, position, outcome
    dna, k, t, N, motifs, best_motifs, i, motif_i, profile,
    gibbs_motifs, consensus_motif, unbound, n_done, pc, ret,
    \* RepeatGibbsMotSearch: module-level score_lst, locals, report file
    n_times, score_lst, motif_lst, all_gibs_motifs_lst, consensus_lst,
    data, N_iter, runs, report, rpc,
    \* a pure function applied to an argument: fn_out is the tuple of what the
    \* call leaves, the return value first
    fn_in, fn_out, fn_pc

gvars == <<dna, k, t, N, motifs, best_motifs, i, motif_i, profile,
           gibbs_motifs, consensus_motif, unbound, n_done, pc, ret>>
rvars == <<n_times, score_lst, motif_lst, all_gibs_motifs_lst, consensus_lst,
           data, N_iter, runs, report, rpc>>
fvars == <<fn_in, fn_out, fn_pc>>
vars == <<gvars, rvars, fvars>>

----------------------------------------------------------------------------
(* Bounds *)

\* most motifs in a motif set handed to a pure function
MaxMotifs == 3
\* most inner iterations of one gibbs_sampler run
MaxN == 3
\* most outer iterations / restarts per outer iteration of the driver
MaxOuterN == 2
MaxNTimes == 2

\* motif lengths of the motif sets handed to a pure function
MotifLens == {1, 2}

----------------------------------------------------------------------------
(* Strings *)

\* the symbol order of the if/elif chains: index 0..3 is A, C, G, T
Symbols == <<"A", "C", "G", "T">>

\* "\033[31m" and "\033[0m"
RED == "<ESC[31m>"
RESET == "<ESC[0m>"

Min2(a, b) == IF a < b THEN a ELSE b

\* seq[a:b] for 0 <= a, b (Python clamps the slice to the string)
slice(seq, a, b) == SubSeq(seq, a + 1, Min2(b, Len(seq)))

\* seq.replace(old, new), old non-empty: every non-overlapping occurrence,
\* left to right; pos is the 0-based scan position
RECURSIVE str_replace_from(_, _, _, _)
str_replace_from(seq, old, new, pos) ==
    IF pos + Len(old) > Len(seq)
    THEN SubSeq(seq, pos + 1, Len(seq))
    ELSE IF SubSeq(seq, pos + 1, pos + Len(old)) = old
         THEN new \o str_replace_from(seq, old, new, pos + Len(old))
         ELSE <<seq[pos + 1]>> \o str_replace_from(seq, old, new, pos + 1)

str_replace(seq, old, new) == str_replace_from(seq, old, new, 0)

\* list.pop(p) and list.insert(p, x) for 0 <= p <= len
list_pop(lst, p) == SubSeq(lst, 1, p) \o SubSeq(lst, p + 2, Len(lst))
list_insert(lst, p, x) == SubSeq(lst, 1, p) \o <<x>> \o SubSeq(lst, p + 1, Len(lst))

\* variant of randint that returns a on an empty range instead of raising
randint_clamped(a, b) == a .. (IF b < a THEN a ELSE b)

\* random.randint(a, b): the values it can return; none when a > b, where it
\* raises ValueError
randint(a, b) == a .. b

----------------------------------------------------------------------------
(* build_profile_matrix *)

\* c == j for a one-character str c and an int j: never equal in Python
py_eq_str_int(c, j) == FALSE

\* column.count(j), j an int, column a list of characters
column_count(column, j) ==
    Cardinality({n \in DOMAIN column : py_eq_str_int(column[n], j)})

build_profile_matrix(ms) ==
    [row \in 0 .. Len(ms[1]) - 1 |->
        LET column == [n \in 1 .. Len(ms) |-> ms[n][row + 1]]
        IN [j \in 0 .. 3 |->
              [num |-> column_count(column, j) + 1, den |-> Len(ms) + 4]]]

----------------------------------------------------------------------------
(* profile_randomly_generated_kmer *)

\* the if/elif chain of the inner loop: the profile column of a symbol;
\* -1 when no branch matches and prob is left as it is
symbol_column(c) ==
    IF c = "A" THEN 0 ELSE IF c = "C" THEN 1
    ELSE IF c = "G" THEN 2 ELSE IF c = "T" THEN 3 ELSE -1

\* prob after the loop over j in range(k), as a fraction
RECURSIVE kmer_prob(_, _, _)
kmer_prob(kmer, prof, j) ==
    IF j = 0 THEN [num |-> 1, den |-> 1]
    ELSE LET p == kmer_prob(kmer, prof, j - 1)
             c == symbol_column(kmer[j])
         IN IF c = -1 THEN p
            ELSE [num |-> p.num * prof[j - 1][c].num,
                  den |-> p.den * prof[j - 1][c].den]

\* the weights list before normalisation, indexed by offset
kmer_probabilities(seq, kk, prof) ==
    [o \in 0 .. Len(seq) - kk |-> kmer_prob(slice(seq, o, o + kk), prof, kk)]

\* random.choices(range(n - k + 1), weights): an offset of positive weight
\* (p / sum(probabilities) is positive exactly when p is)
kmer_offsets(seq, kk, prof) ==
    {o \in 0 .. Len(seq) - kk : kmer_probabilities(seq, kk, prof)[o].num > 0}

\* the k-mers profile_randomly_generated_kmer can return
profile_randomly_generated_kmer(seq, kk, prof) ==
    {slice(seq, o, o + kk) : o \in kmer_offsets(seq, kk, prof)}

----------------------------------------------------------------------------
(* score_motif and consensus *)

SetMax(S) == CHOOSE x \in S : \A y \in S : x >= y

\* score_motif's loop over the columns, from column col on
RECURSIVE score_motif_loop(_, _, _, _)
score_motif_loop(motif, col, cons, score) ==
    IF col = Len(motif[1]) THEN [consensus |-> cons, score |-> score]
    ELSE
      LET counts == [c \in 0 .. 3 |->
                       Cardinality({j \in 1 .. Len(motif) :
                                      motif[j][col + 1] = Symbols[c + 1]})]
          max_count == SetMax({counts[c] : c \in 0 .. 3})
          cons2 == IF max_count = counts[0] THEN Append(cons, "A")
                   ELSE IF max_count = counts[1] THEN Append(cons, "C")
                   ELSE IF max_count = counts[2] THEN Append(cons, "G")
                   ELSE IF max_count = counts[3] THEN Append(cons, "T")
                   ELSE cons
          miss == Cardinality({j \in 1 .. Len(motif) :
                                 motif[j][col + 1] # cons2[col + 1]})
      IN score_motif_loop(motif, col + 1, cons2, score + miss)

\* the consensus score_motif builds on the way
score_motif_consensus(motif) == score_motif_loop(motif, 0, <<>>, 0).consensus

\* variant of score_motif that counts the motifs differing from the consensus
\* instead of the differing (motif, column) pairs
score_motif_per_motif(motif) ==
    Cardinality({j \in 1 .. Len(motif) : motif[j] # score_motif_consensus(motif)})

score_motif(motif) == score_motif_loop(motif, 0, <<>>, 0).score

\* consensus()'s loop over the columns, from column col on
RECURSIVE consensus_loop(_, _, _)
consensus_loop(ms, col, cons) ==
    IF col = Len(ms[1]) THEN cons
    ELSE
      LET counts == [c \in 0 .. 3 |->
                       Cardinality({j \in 1 .. Len(ms) :
                                      ms[j][col + 1] = Symbols[c + 1]})]
          max_count == SetMax({counts[c] : c \in 0 .. 3})
      IN consensus_loop(ms, col + 1,
            IF max_count = counts[0] THEN Append(cons, "A")
            ELSE IF max_count = counts[1] THEN Append(cons, "C")
            ELSE IF max_count = counts[2] THEN Append(cons, "G")
            ELSE IF max_count = counts[3] THEN Append(cons, "T")
            ELSE cons)

\* variant of consensus that resolves a tie to the latest of A, C, G, T
consensus_last_wins(ms) ==
    [col \in 1 .. Len(ms[1]) |->
        LET cnt(s) == Cardinality({j \in 1 .. Len(ms) : ms[j][col] = s})
            best == SetMax({cnt(Symbols[c]) : c \in 1 .. 4})
        IN Symbols[SetMax({c \in 1 .. 4 : cnt(Symbols[c]) = best})]]

consensus(ms) == consensus_loop(ms, 0, <<>>)

----------------------------------------------------------------------------
(* gibbs_sampler *)

\* how the call ended: not yet, by raising value[1], or by returning the tuple
\* value = (best_motifs, score, gibbs_motifs, consensus_motif)
NoResult == [kind |-> "none", value |-> <<>>]
Raised(e) == [kind |-> "raise", value |-> <<e>>]
Returned(b, s, g, c) == [kind |-> "return", value |-> <<b, s, g, c>>]

\* the motif lists the initial loop can have built after the first n sequences;
\* empty when a randint on the way raises
RECURSIVE initial_motifs(_, _, _)
initial_motifs(d, kk, n) ==
    IF n = 0 THEN {<<>>}
    ELSE {Append(ms, slice(d[n], o, o + kk)) :
            ms \in initial_motifs(d, kk, n - 1),
            o \in randint(0, Len(d[n]) - kk)}

\* the sequences whose randint(0, len(seq) - k) raises
short_seqs(d, kk) == {s \in DOMAIN d : randint(0, Len(d[s]) - kk) = {}}

SetMin(S) == CHOOSE x \in S : \A y \in S : x <= y

\* lines 40-44: the random initial motifs, also the initial best
Initialize ==
    /\ pc = "start"
    /\ IF short_seqs(dna, k) # {}
       THEN /\ motifs' \in initial_motifs(dna, k, SetMin(short_seqs(dna, k)) - 1)
            /\ ret' = Raised("ValueError")
            /\ pc' = "raised"
            /\ UNCHANGED best_motifs
       ELSE /\ motifs' \in initial_motifs(dna, k, Len(dna))
            /\ best_motifs' = motifs'
            /\ pc' = "loop"
            /\ UNCHANGED ret
    /\ UNCHANGED <<dna, k, t, N, i, motif_i, profile, gibbs_motifs,
                   consensus_motif, unbound, n_done>>
    /\ UNCHANGED <<rvars, fvars>>

\* variant of Evict that leaves the drawn motif in the working set
Evict_keep ==
    /\ pc = "loop"
    /\ n_done < N
    /\ randint(0, t - 1) # {}
    /\ \E idx \in randint(0, t - 1) :
          /\ idx < Len(motifs)
          /\ i' = idx
          /\ motif_i' = motifs[idx + 1]
          /\ pc' = "profile"
          /\ UNCHANGED <<motifs, ret>>
    /\ UNCHANGED <<dna, k, t, N, best_motifs, profile, gibbs_motifs,
                   consensus_motif, unbound, n_done>>
    /\ UNCHANGED <<rvars, fvars>>

\* lines 47-50: draw the index, remember and remove its motif
Evict ==
    /\ pc = "loop"
    /\ n_done < N
    /\ IF randint(0, t - 1) = {}
       THEN /\ ret' = Raised("ValueError")
            /\ pc' = "raised"
            /\ UNCHANGED <<i, motif_i, motifs>>
       ELSE \E idx \in randint(0, t - 1) :
              /\ i' = idx
              /\ IF idx >= Len(motifs)
                 THEN /\ ret' = Raised("IndexError")
                      /\ pc' = "raised"
                      /\ UNCHANGED <<motif_i, motifs>>
                 ELSE /\ motif_i' = motifs[idx + 1]
                      /\ motifs' = list_pop(motifs, idx)
                      /\ pc' = "profile"
                      /\ UNCHANGED ret
    /\ UNCHANGED <<dna, k, t, N, best_motifs, profile, gibbs_motifs,
                   consensus_motif, unbound, n_done>>
    /\ UNCHANGED <<rvars, fvars>>

\* line 53: the profile of the remaining motifs; motifs[0] of none raises
BuildProfile ==
    /\ pc = "profile"
    /\ IF motifs = <<>>
       THEN /\ ret' = Raised("IndexError")
            /\ pc' = "raised"
            /\ UNCHANGED profile
       ELSE /\ profile' = build_profile_matrix(motifs)
            /\ pc' = "resample"
            /\ UNCHANGED ret
    /\ UNCHANGED <<dna, k, t, N, motifs, best_motifs, i, motif_i, gibbs_motifs,
                   consensus_motif, unbound, n_done>>
    /\ UNCHANGED <<rvars, fvars>>

\* lines 56-58: draw the replacement from sequence i and put it back at i
Resample ==
    /\ pc = "resample"
    /\ \E kmer \in profile_randomly_generated_kmer(dna[i + 1], k, profile) :
          /\ motif_i' = kmer
          /\ motifs' = list_insert(motifs, i, kmer)
    /\ pc' = "update"
    /\ UNCHANGED <<dna, k, t, N, best_motifs, i, profile, gibbs_motifs,
                   consensus_motif, unbound, n_done, ret>>
    /\ UNCHANGED <<rvars, fvars>>

\* variant of UpdateBest that also replaces the best on an equal score
UpdateBest_le ==
    /\ pc = "update"
    /\ best_motifs' = IF score_motif(motifs) <= score_motif(best_motifs)
                      THEN motifs ELSE best_motifs
    /\ pc' = "render"
    /\ UNCHANGED <<dna, k, t, N, motifs, i, motif_i, profile, gibbs_motifs,
                   consensus_motif, unbound, n_done, ret>>
    /\ UNCHANGED <<rvars, fvars>>

\* lines 61-62: a strictly lower score replaces the best
UpdateBest ==
    /\ pc = "update"
    /\ best_motifs' = IF score_motif(motifs) < score_motif(best_motifs)
                      THEN motifs ELSE best_motifs
    /\ pc' = "render"
    /\ UNCHANGED <<dna, k, t, N, motifs, i, motif_i, profile, gibbs_motifs,
                   consensus_motif, unbound, n_done, ret>>
    /\ UNCHANGED <<rvars, fvars>>

\* lines 65-68: each sequence with the occurrences of its best motif in red
render_motifs(d, best) ==
    [idx \in 1 .. Len(best) |->
        str_replace(d[idx], best[idx], <<RED>> \o best[idx] \o <<RESET>>)]

\* variant of Render that renders in the first iteration only
Render_first_only ==
    /\ pc = "render"
    /\ IF unbound # {}
       THEN /\ gibbs_motifs' = render_motifs(dna, best_motifs)
            /\ consensus_motif' = consensus(best_motifs)
       ELSE UNCHANGED <<gibbs_motifs, consensus_motif>>
    /\ i' = Len(best_motifs) - 1
    /\ unbound' = {}
    /\ n_done' = n_done + 1
    /\ pc' = "loop"
    /\ UNCHANGED <<dna, k, t, N, motifs, best_motifs, motif_i, profile, ret>>
    /\ UNCHANGED <<rvars, fvars>>

\* lines 65-70: rendering and consensus of the current best, every iteration;
\* the rendering loop reuses i
Render ==
    /\ pc = "render"
    /\ gibbs_motifs' = render_motifs(dna, best_motifs)
    /\ i' = Len(best_motifs) - 1
    /\ consensus_motif' = consensus(best_motifs)
    /\ unbound' = {}
    /\ n_done' = n_done + 1
    /\ pc' = "loop"
    /\ UNCHANGED <<dna, k, t, N, motifs, best_motifs, motif_i, profile, ret>>
    /\ UNCHANGED <<rvars, fvars>>

\* line 72: the return tuple, evaluated left to right
Return ==
    /\ pc = "loop"
    /\ n_done >= N
    /\ IF best_motifs = <<>>
       THEN ret' = Raised("IndexError") /\ pc' = "raised"
       ELSE IF unbound # {}
       THEN ret' = Raised("UnboundLocalError") /\ pc' = "raised"
       ELSE /\ ret' = Returned(best_motifs, score_motif(best_motifs),
                                gibbs_motifs, consensus_motif)
            /\ pc' = "done"
    /\ UNCHANGED <<dna, k, t, N, motifs, best_motifs, i, motif_i, profile,
                   gibbs_motifs, consensus_motif, unbound, n_done>>
    /\ UNCHANGED <<rvars, fvars>>

GibbsNext ==
    \/ Initialize
    \/ Evict
    \/ BuildProfile
    \/ Resample
    \/ UpdateBest
    \/ Render
    \/ Return

\* the locals of a gibbs_sampler call that has not run a statement yet
GibbsEntry ==
    /\ motifs = <<>>
    /\ best_motifs = <<>>
    /\ i = -1
    /\ motif_i = <<>>
    /\ profile = <<>>
    /\ gibbs_motifs = <<>>
    /\ consensus_motif = <<>>
    /\ unbound = {"gibbs_motifs", "consensus_motif"}
    /\ n_done = 0
    /\ ret = NoResult

DriverIdle ==
    /\ n_times = 0
    /\ score_lst = <<>>
    /\ motif_lst = <<>>
    /\ all_gibs_motifs_lst = <<>>
    /\ consensus_lst = <<>>
    /\ data = <<>>
    /\ N_iter = 0
    /\ runs = 0
    /\ report = <<>>
    /\ rpc = "none"

FnIdle ==
    /\ fn_in = <<>>
    /\ fn_out = <<>>
    /\ fn_pc = "none"

\* corpora handed to gibbs_sampler: well-formed ones, a single sequence, the
\* empty corpus, and one with a sequence shorter than k = 2
Corpora ==
    { << <<"A","C","A","C">>, <<"C","A","C">> >>,
      << <<"A","C","G">>, <<"C","G","T">>, <<"G","A","C">> >>,
      << <<"A","C","G">> >>,
      << >>,
      << <<"A","C","A">>, <<"C">> >> }

Ks == {1, 2, 3}

GibbsInit ==
    /\ dna \in Corpora
    /\ k \in Ks
    /\ t \in 0 .. Len(dna) + 1
    /\ N \in 0 .. MaxN
    /\ pc = "start"
    /\ GibbsEntry
    /\ DriverIdle
    /\ FnIdle

SpecGibbs == GibbsInit /\ [][GibbsNext]_vars

----------------------------------------------------------------------------
(* RepeatGibbsMotSearch *)

\* list(zip(a, b, c)): as long as the shortest of the three
zip3(a, b, c) ==
    [n \in 1 .. Min2(Len(a), Min2(Len(b), Len(c))) |-> <<a[n], b[n], c[n]>>]

\* list.sort(key=lambda x: x[0]): stable, ascending by the first component
RECURSIVE sort_by_score(_)
sort_by_score(lst) ==
    IF Len(lst) = 0 THEN <<>>
    ELSE LET front == sort_by_score(SubSeq(lst, 1, Len(lst) - 1))
             x == lst[Len(lst)]
             p == Cardinality({n \in 1 .. Len(front) : front[n][1] <= x[1]})
         IN SubSeq(front, 1, p) \o <<x>> \o SubSeq(front, p + 1, Len(front))

\* line 204: the report file is opened (and truncated)
Open ==
    /\ rpc = "entry"
    /\ report' = <<>>
    /\ rpc' = "opened"
    /\ UNCHANGED <<n_times, score_lst, motif_lst, all_gibs_motifs_lst,
                   consensus_lst, data, N_iter, runs>>
    /\ UNCHANGED <<gvars, fvars>>

\* lines 205-208: the next outer iteration starts with empty local lists, or
\* the loop ends and the file is closed
OuterBegin ==
    /\ rpc \in {"opened", "written"}
    /\ LET next == IF rpc = "opened" THEN 0 ELSE N_iter + 1
       IN IF next < N
          THEN /\ N_iter' = next
               /\ motif_lst' = <<>>
               /\ all_gibs_motifs_lst' = <<>>
               /\ consensus_lst' = <<>>
               /\ runs' = 0
               /\ rpc' = "inner"
          ELSE /\ rpc' = "closed"
               /\ UNCHANGED <<N_iter, motif_lst, all_gibs_motifs_lst,
                              consensus_lst, runs>>
    /\ UNCHANGED <<n_times, score_lst, data, report>>
    /\ UNCHANGED <<gvars, fvars>>

\* lines 209-210: one more gibbs_sampler(dna, k, t, N) is entered
Call ==
    /\ rpc = "inner"
    /\ runs < n_times
    /\ pc' = "start"
    /\ motifs' = <<>>
    /\ best_motifs' = <<>>
    /\ i' = -1
    /\ motif_i' = <<>>
    /\ profile' = <<>>
    /\ gibbs_motifs' = <<>>
    /\ consensus_motif' = <<>>
    /\ unbound' = {"gibbs_motifs", "consensus_motif"}
    /\ n_done' = 0
    /\ ret' = NoResult
    /\ rpc' = "call"
    /\ UNCHANGED <<dna, k, t, N>>
    /\ UNCHANGED <<n_times, score_lst, motif_lst, all_gibs_motifs_lst,
                   consensus_lst, data, N_iter, runs, report>>
    /\ UNCHANGED fvars

\* lines 210-214: the run's result is appended to the four lists
Collect ==
    /\ rpc = "call"
    /\ pc = "done"
    /\ motif_lst' = Append(motif_lst, ret.value[1])
    /\ score_lst' = Append(score_lst, ret.value[2])
    /\ all_gibs_motifs_lst' = Append(all_gibs_motifs_lst, ret.value[3])
    /\ consensus_lst' = Append(consensus_lst, ret.value[4])
    /\ runs' = runs + 1
    /\ pc' = "idle"
    /\ rpc' = "inner"
    /\ UNCHANGED <<dna, k, t, N, motifs, best_motifs, i, motif_i, profile,
                   gibbs_motifs, consensus_motif, unbound, n_done, ret>>
    /\ UNCHANGED <<n_times, data, N_iter, report>>
    /\ UNCHANGED fvars

\* lines 217-226: data is sorted; the block is written from the lists' heads
WriteBlock ==
    /\ rpc = "inner"
    /\ runs >= n_times
    /\ data' = sort_by_score(zip3(score_lst, all_gibs_motifs_lst, consensus_lst))
    /\ report' = Append(report,
                        [N_iter |-> N_iter + 1,
                         N |-> N,
                         consensus |-> consensus_lst[1],
                         score |-> score_lst[1],
                         motifs |-> all_gibs_motifs_lst[1]])
    /\ rpc' = "written"
    /\ UNCHANGED <<n_times, score_lst, motif_lst, all_gibs_motifs_lst,
                   consensus_lst, N_iter, runs>>
    /\ UNCHANGED <<gvars, fvars>>

Next ==
    \/ Open
    \/ OuterBegin
    \/ Call
    \/ Initialize
    \/ Evict
    \/ BuildProfile
    \/ Resample
    \/ UpdateBest
    \/ Render
    \/ Return
    \/ Collect
    \/ WriteBlock

\* the module-level corpus, scaled down to two sequences and k = 2
DriverCorpora == { << <<"A","C","A">>, <<"C","A","C">> >> }

\* RepeatGibbsMotSearch(k, t, N, n_times) on the module-level dna, t its
\* length as in main(); score_lst is empty when the module is loaded.  N is both
\* the number of outer iterations and the inner iterations of each run.
\* n_times >= 1: with no run, consensus_lst[0] at line 221 raises IndexError.
Init ==
    /\ dna \in DriverCorpora
    /\ k = 2
    /\ t = Len(dna)
    /\ N \in 0 .. MaxOuterN
    /\ n_times \in 1 .. MaxNTimes
    /\ pc = "idle"
    /\ GibbsEntry
    /\ score_lst = <<>>
    /\ motif_lst = <<>>
    /\ all_gibs_motifs_lst = <<>>
    /\ consensus_lst = <<>>
    /\ data = <<>>
    /\ N_iter = 0
    /\ runs = 0
    /\ report = <<>>
    /\ rpc = "entry"
    /\ FnIdle

Spec == Init /\ [][Next]_vars

----------------------------------------------------------------------------
(* The pure functions applied to a motif set *)

AllSymbols == {Symbols[c] : c \in 1 .. 4}

RECURSIVE Strings(_)
Strings(len) ==
    IF len = 0 THEN {<<>>}
    ELSE {Append(s, c) : s \in Strings(len - 1), c \in AllSymbols}

\* the motif sets of scenarios 3 and 4
ScenarioSets ==
    { << <<"A","A","A","A">>, <<"A","A","A","A">>, <<"A","A","A","A">> >>,
      << <<"A","A","C","C">>, <<"C","C","A","A">> >> }

MotifSets ==
    UNION {[1 .. m -> Strings(len)] : m \in 1 .. MaxMotifs, len \in MotifLens}
      \cup ScenarioSets

FnInit ==
    /\ fn_in \in MotifSets
    /\ fn_out = <<>>
    /\ fn_pc = "arg"
    /\ dna = <<>> /\ k = 0 /\ t = 0 /\ N = 0
    /\ pc = "idle"
    /\ GibbsEntry
    /\ DriverIdle

ApplyProfile ==
    /\ fn_pc = "arg"
    /\ fn_out' = <<build_profile_matrix(fn_in)>>
    /\ fn_pc' = "build_profile_matrix"
    /\ UNCHANGED <<fn_in, gvars, rvars>>

\* score_motif's return value, and its local consensus at the return
ApplyScore ==
    /\ fn_pc = "arg"
    /\ fn_out' = <<score_motif(fn_in), score_motif_consensus(fn_in)>>
    /\ fn_pc' = "score_motif"
    /\ UNCHANGED <<fn_in, gvars, rvars>>

ApplyConsensus ==
    /\ fn_pc = "arg"
    /\ fn_out' = <<consensus(fn_in)>>
    /\ fn_pc' = "consensus"
    /\ UNCHANGED <<fn_in, gvars, rvars>>

FnNext ==
    \/ ApplyProfile
    \/ ApplyScore
    \/ ApplyConsensus

SpecFn == FnInit /\ [][FnNext]_vars

----------------------------------------------------------------------------
(* Properties *)

\* number of motifs of ms with symbol s at (1-based) column col
SymbolCount(ms, col, s) == Cardinality({j \in 1 .. Len(ms) : ms[j][col] = s})

\* s has the highest count of the column, and no earlier symbol of A, C, G, T
\* has as high a count
IsMajority(ms, col, s) ==
    \E c \in 1 .. 4 :
       /\ Symbols[c] = s
       /\ \A d \in 1 .. 4 : SymbolCount(ms, col, Symbols[d]) <= SymbolCount(ms, col, s)
       /\ \A d \in 1 .. c - 1 : SymbolCount(ms, col, Symbols[d]) < SymbolCount(ms, col, s)

IsConsensusOf(cons, ms) ==
    /\ Len(cons) = Len(ms[1])
    /\ \A col \in 1 .. Len(cons) : IsMajority(ms, col, cons[col])

\* the (motif, column) pairs whose symbol differs from cons at that column
Mismatches(ms, cons) ==
    Cardinality({pair \in (1 .. Len(ms)) \X (1 .. Len(cons)) :
                   ms[pair[1]][pair[2]] # cons[pair[2]]})

RECURSIVE SumNums(_, _)
SumNums(row, j) == IF j < 0 THEN 0 ELSE row[j].num + SumNums(row, j - 1)

\* corpus non-empty, every sequence at least k long, t = len(corpus)
WellFormed ==
    /\ dna # <<>>
    /\ \A s \in DOMAIN dna : Len(dna[s]) >= k
    /\ t = Len(dna)

BadCorpus == dna = <<>> \/ \E s \in DOMAIN dna : Len(dna[s]) < k

IsKmerOf(m, seq, kk) ==
    /\ Len(m) = kk
    /\ \E o \in 0 .. Len(seq) - kk : SubSeq(seq, o + 1, o + kk) = m

IsMark(c) == c = RED \/ c = RESET
Unmark(r) == SelectSeq(r, LAMBDA c : ~IsMark(c))

\* r is seq with motif marked: without the marks it is seq, it has a mark, and
\* the marks enclose copies of motif and nothing else
IsMarkedWith(r, seq, m) ==
    /\ Unmark(r) = seq
    /\ \E p \in 1 .. Len(r) : r[p] = RED
    /\ \A p \in 1 .. Len(r) :
          /\ r[p] = RED =>
                /\ p + Len(m) + 1 <= Len(r)
                /\ SubSeq(r, p + 1, p + Len(m)) = m
                /\ r[p + Len(m) + 1] = RESET
          /\ r[p] = RESET => (p > Len(m) + 1 /\ r[p - Len(m) - 1] = RED)

\* the block just written, and the runs of the outer iteration it reports
LastBlock == report[Len(report)]
RunsOfBlock == 1 .. Len(consensus_lst)
RunScore(r) == score_lst[Len(score_lst) - Len(consensus_lst) + r]
LowestRun ==
    CHOOSE r \in RunsOfBlock :
       \A r2 \in RunsOfBlock :
          /\ RunScore(r) <= RunScore(r2)
          /\ r2 < r => RunScore(r2) > RunScore(r)

\* C1: the triple written for an outer iteration is the lowest-scoring triple
\* of that iteration's n_times runs, the first such run on a tie.
C1_LowestReported ==
    rpc = "written" =>
       /\ LastBlock.score = RunScore(LowestRun)
       /\ LastBlock.motifs = all_gibs_motifs_lst[LowestRun]
       /\ LastBlock.consensus = consensus_lst[LowestRun]

\* C2: build_profile_matrix's cell [i][s] is (count of s in column i + 1) over
\* (m + 4); the numerators of a row sum to m + 4 and every cell is positive.
C2_ProfileCells ==
    fn_pc = "build_profile_matrix" =>
       /\ DOMAIN fn_out[1] = 0 .. Len(fn_in[1]) - 1
       /\ \A row \in DOMAIN fn_out[1] :
             /\ \A j \in 0 .. 3 :
                   /\ fn_out[1][row][j].num =
                         SymbolCount(fn_in, row + 1, Symbols[j + 1]) + 1
                   /\ fn_out[1][row][j].den = Len(fn_in) + 4
                   /\ fn_out[1][row][j].num > 0
             /\ SumNums(fn_out[1][row], 3) = Len(fn_in) + 4

Scenario4 == << <<"A","A","C","C">>, <<"C","C","A","A">> >>

\* C3 as stated: for ["AACC", "CCAA"] the consensus is "AACC" and the score 2.
C3_Original ==
    fn_in = Scenario4 =>
       /\ fn_pc = "score_motif" =>
             (fn_out[2] = <<"A","A","C","C">> /\ fn_out[1] = 2)
       /\ fn_pc = "consensus" => fn_out[1] = <<"A","A","C","C">>

\* C3 amended: for ["AACC", "CCAA"] every column is a 1-1 tie of A and C, so the
\* consensus is "AAAA" and the score is 4.
C3_Scenario4 ==
    fn_in = Scenario4 =>
       /\ fn_pc = "score_motif" =>
             (fn_out[2] = <<"A","A","A","A">> /\ fn_out[1] = 4)
       /\ fn_pc = "consensus" => fn_out[1] = <<"A","A","A","A">>

C3_Witness == fn_in = Scenario4 /\ fn_pc = "score_motif" /\ fn_out[1] = 4

\* C4: with N = 0 on a well-formed corpus gibbs_sampler returns normally, and
\* returns the initial motif set with its score, consensus and rendering.
C4_ZeroIterationsReturn ==
    (WellFormed /\ N = 0 /\ pc \in {"done", "raised"}) =>
       /\ pc = "done"
       /\ ret.kind = "return"
       /\ ret.value[1] = motifs
       /\ ret.value[2] = Mismatches(motifs, ret.value[4])
       /\ IsConsensusOf(ret.value[4], motifs)
       /\ \A s \in DOMAIN dna : IsMarkedWith(ret.value[3][s], dna[s], motifs[s])

InRun == pc \in {"loop", "profile", "resample", "update", "render"} /\ best_motifs # <<>>

\* C5: within a run the score of best_motifs never increases, and best_motifs
\* changes only in an iteration whose working set scores strictly lower than
\* it, to that working set; on an equal or higher score it stays.
C5_BestMonotone ==
    [][InRun =>
         /\ score_motif(best_motifs') <= score_motif(best_motifs)
         /\ best_motifs' # best_motifs =>
               /\ pc = "update"
               /\ score_motif(motifs) < score_motif(best_motifs)
               /\ best_motifs' = motifs
         /\ (pc = "update" /\ score_motif(motifs) >= score_motif(best_motifs)) =>
               best_motifs' = best_motifs]_vars

\* the second iteration has just replaced the best rendered by the first
C5_Witness ==
    /\ pc = "render"
    /\ n_done = 1
    /\ best_motifs = motifs
    /\ gibbs_motifs # render_motifs(dna, best_motifs)

\* C6: on an empty corpus or one with a sequence shorter than k, gibbs_sampler
\* ends by raising: nothing is evicted, no profile is built, nothing is
\* resampled, and nothing is returned, whatever N and t are.
C6_BadCorpusRejected ==
    BadCorpus =>
       /\ pc \in {"start", "loop", "raised"}
       /\ n_done = 0
       /\ profile = <<>>
       /\ pc = "loop" => (dna = <<>> /\ motifs = <<>> /\ best_motifs = <<>>)
       /\ pc = "raised" => ret.kind = "raise"
       /\ ret.kind # "return"

C6_Witness ==
    /\ \E s \in DOMAIN dna : Len(dna[s]) < k
    /\ N >= 1
    /\ pc = "raised"
    /\ ret = Raised("ValueError")

\* C7: the consensus has at each column the most frequent symbol, the earliest
\* of A, C, G, T on a tie; the score is the number of (motif, column) pairs
\* that differ from it; score_motif's own consensus is what consensus() returns.
C7_ConsensusAndScore ==
    /\ fn_pc = "score_motif" =>
          /\ IsConsensusOf(fn_out[2], fn_in)
          /\ fn_out[1] = Mismatches(fn_in, fn_out[2])
          /\ fn_out[2] = consensus(fn_in)
    /\ fn_pc = "consensus" =>
          /\ IsConsensusOf(fn_out[1], fn_in)
          /\ fn_out[1] = score_motif_consensus(fn_in)

\* a column with a tie between two symbols, of which the earlier one is chosen
C7_Witness ==
    /\ fn_pc = "consensus"
    /\ \E col \in 1 .. Len(fn_out[1]) :
          /\ fn_out[1][col] = "C"
          /\ SymbolCount(fn_in, col, "C") = SymbolCount(fn_in, col, "T")

\* C8: what a run of N >= 1 iterations returns is one snapshot: the score and
\* the consensus are those of the returned best set, and rendering i is
\* sequence i with best motif i marked.
C8_ReturnOneSnapshot ==
    (pc = "done" /\ N >= 1) =>
       /\ ret.kind = "return"
       /\ ret.value[1] = best_motifs
       /\ IsConsensusOf(ret.value[4], ret.value[1])
       /\ ret.value[2] = Mismatches(ret.value[1], ret.value[4])
       /\ Len(ret.value[3]) = Len(ret.value[1])
       /\ \A s \in 1 .. Len(ret.value[1]) :
             IsMarkedWith(ret.value[3][s], dna[s], ret.value[1][s])

\* a run of two iterations whose best is not the last working set
C8_Witness ==
    /\ pc = "done"
    /\ N >= 2
    /\ ret.value[1] # motifs
    /\ ret.value[2] < score_motif(motifs)

\* C9: on a well-formed corpus the working set has t motifs, motif i a
\* length-k substring of sequence i, after Initializing and after every
\* iteration; an iteration removes index i, builds the profile from the t-1
\* motifs left, and puts one motif back at index i, the others staying.
C9_OneIndexResampled ==
    [][WellFormed =>
         /\ pc' \in {"loop", "done"} =>
               /\ Len(motifs') = t
               /\ \A s \in 1 .. t : IsKmerOf(motifs'[s], dna[s], k)
         /\ pc' = "profile" =>
               /\ pc = "loop"
               /\ i' \in 0 .. t - 1
               /\ Len(motifs') = t - 1
               /\ \A s \in 1 .. t - 1 :
                     motifs'[s] = IF s <= i' THEN motifs[s] ELSE motifs[s + 1]
         /\ pc' = "resample" =>
               /\ motifs' = motifs
               /\ Len(motifs') = t - 1
               /\ profile' = build_profile_matrix(motifs')
         /\ pc' = "update" =>
               /\ i' = i
               /\ Len(motifs') = t
               /\ IsKmerOf(motifs'[i + 1], dna[i + 1], k)
               /\ \A s \in 1 .. t - 1 :
                     motifs[s] = IF s <= i THEN motifs'[s] ELSE motifs'[s + 1]
         /\ pc' = "render" => motifs' = motifs
         /\ (pc = "render" /\ pc' = "loop") => motifs' = motifs]_vars

\* the second iteration of a three-sequence run has put a motif back
C9_Witness ==
    /\ WellFormed
    /\ t = 3
    /\ pc = "update"
    /\ n_done = 1
    /\ i = 1
    /\ motifs[2] # best_motifs[2]

\* C10: score, consensus and rendering of a report block all come from one and
\* the same run of the outer iteration the block reports.
C10_BlockFromOneRun ==
    rpc = "written" =>
       \E r \in RunsOfBlock :
          /\ LastBlock.score = RunScore(r)
          /\ LastBlock.consensus = consensus_lst[r]
          /\ LastBlock.motifs = all_gibs_motifs_lst[r]

====
